---------------------------- MODULE Spec2Model ----------------------------
(***************************************************************************)
(* A model of flow/network.cpp: IPAddress and NetworkAddress text parsing  *)
(* and formatting, NetworkAddress::parseList, and                          *)
(* INetworkConnections::connect(host, service, useTLS).                    *)
(*                                                                         *)
(* A std::string is a sequence of one-character strings.  Integers keep    *)
(* the width of the C++ type that holds them: an int is checked against    *)
(* INT_MIN..INT_MAX, a uint16_t is reduced modulo 2^16 and a uint32_t is   *)
(* kept as its four bytes, most significant first.                         *)
(***************************************************************************)
EXTENDS Integers, Sequences, FiniteSets

VARIABLES
    signedOverflow, \* what the build does on signed overflow: "wrap" | "trap"
    scanfOverflow,  \* what the C library's %d stores on overflow
    text,           \* the std::string handed to parse / parseList
    pc,             \* position of the text pipeline
    parsed,         \* outcome of NetworkAddress::parse(text)
    formatted,      \* parsed.toString()
    reparsed,       \* outcome of NetworkAddress::parse(formatted)
    tlsParsed,      \* outcome of NetworkAddress::parse(text + ":tls")
    tlsFormatted,   \* tlsParsed.toString()
    listed,         \* outcome of NetworkAddress::parseList(text)
    calls,          \* the outstanding INetworkConnections::connect calls
    crashed         \* the process died in an out-of-bounds read

textVars == <<signedOverflow, scanfOverflow, text, pc, parsed, formatted,
              reparsed, tlsParsed, tlsFormatted, listed>>
connVars == <<calls, crashed>>
vars == <<textVars, connVars>>

---------------------------------------------------------------------------
(* Characters and numbers.                                                 *)

NUL == "NUL"          \* what s[s.size()] and c_str()[size] read
npos == -1            \* std::string::npos
INT_MAX == 2147483647
INT_MIN == -2147483647 - 1

DecChars == <<"0", "1", "2", "3", "4", "5", "6", "7", "8", "9">>
HexLower == <<"0", "1", "2", "3", "4", "5", "6", "7", "8", "9", "a", "b", "c", "d", "e", "f">>
HexUpper == <<"0", "1", "2", "3", "4", "5", "6", "7", "8", "9", "A", "B", "C", "D", "E", "F">>

IndexIn(seq, c) == CHOOSE i \in 1..Len(seq) : seq[i] = c
Has(seq, c) == \E i \in 1..Len(seq) : seq[i] = c

isdigit(c) == Has(DecChars, c)
isspace(c) == c = " "
DigitVal(c) == IndexIn(DecChars, c) - 1

\* glibc hex_digit_value: the digit's value, or -1
hex_digit_value(c) ==
    IF Has(HexLower, c) THEN IndexIn(HexLower, c) - 1
    ELSE IF Has(HexUpper, c) THEN IndexIn(HexUpper, c) - 1
    ELSE -1

\* s[i] with a 0-based index, as std::string::operator[] and c_str() give it
CharAt(s, i) == IF i >= 0 /\ i < Len(s) THEN s[i + 1] ELSE NUL

Min(a, b) == IF a < b THEN a ELSE b

\* std::string::substr(pos, n), pos <= size
substr(s, pos, n) == SubSeq(s, pos + 1, Min(pos + n, Len(s)))

\* std::string::substr(pos), pos <= size
substrFrom(s, pos) == SubSeq(s, pos + 1, Len(s))

\* std::string::find_first_of(ch, pos): a 0-based index or npos
RECURSIVE find_first_of(_, _, _)
find_first_of(s, ch, pos) ==
    IF pos >= Len(s) THEN npos
    ELSE IF s[pos + 1] = ch THEN pos
    ELSE find_first_of(s, ch, pos + 1)

\* printf("%d") of a non-negative int
RECURSIVE DecDigits(_)
DecDigits(n) ==
    IF n < 10 THEN <<DecChars[n + 1]>>
    ELSE DecDigits(n \div 10) \o <<DecChars[(n % 10) + 1]>>

\* printf("%d")
FormatD(n) == IF n < 0 THEN <<"-">> \o DecDigits(-n) ELSE DecDigits(n)

\* printf("%x") of a 16-bit word
RECURSIVE FormatX(_)
FormatX(n) ==
    IF n < 16 THEN <<HexLower[n + 1]>>
    ELSE FormatX(n \div 16) \o <<HexLower[(n % 16) + 1]>>

RECURSIVE SkipSpace(_, _)
SkipSpace(s, i) ==
    IF i <= Len(s) /\ isspace(s[i]) THEN SkipSpace(s, i + 1) ELSE i

RECURSIVE DigitsEnd(_, _)
DigitsEnd(s, i) ==
    IF i <= Len(s) /\ isdigit(s[i]) THEN DigitsEnd(s, i + 1) ELSE i

\* The int written by the digits s[i..e-1] with the given sign, or overflow.
RECURSIVE DecInt(_, _, _, _)
DecInt(s, i, e, neg) ==
    IF e <= i THEN [ovf |-> FALSE, val |-> 0]
    ELSE LET p == DecInt(s, i, e - 1, neg)
             d == DigitVal(s[e - 1])
         IN IF p.ovf THEN p
            ELSE IF neg
                 THEN IF p.val < -214748364 \/ (p.val = -214748364 /\ d > 8)
                      THEN [ovf |-> TRUE, val |-> 0]
                      ELSE [ovf |-> FALSE, val |-> p.val * 10 - d]
                 ELSE IF p.val > 214748364 \/ (p.val = 214748364 /\ d > 7)
                      THEN [ovf |-> TRUE, val |-> 0]
                      ELSE [ovf |-> FALSE, val |-> p.val * 10 + d]

\* The magnitude of the digits s[i..e-1] modulo 2^32, as <<high 16, low 16>>.
RECURSIVE DecMod32(_, _, _)
DecMod32(s, i, e) ==
    IF e <= i THEN <<0, 0>>
    ELSE LET p == DecMod32(s, i, e - 1)
             lo == p[2] * 10 + DigitVal(s[e - 1])
             hi == p[1] * 10 + (lo \div 65536)
         IN <<hi % 65536, lo % 65536>>

\* The int a 32-bit pattern stands for, with the pattern negated first if neg.
Trunc32(w, neg) ==
    LET lo == IF neg THEN (65536 - w[2]) % 65536 ELSE w[2]
        hi == IF neg THEN (65535 - w[1] + (IF w[2] = 0 THEN 1 ELSE 0)) % 65536
              ELSE w[1]
    IN IF hi >= 32768 THEN (hi - 65536) * 65536 + lo ELSE hi * 65536 + lo

Returned(v) == [threw |-> "none", value |-> v]
Threw(e) == [threw |-> e]
Unset == [threw |-> "unset"]

---------------------------------------------------------------------------
(* IPAddress.  store is the 16-byte buffer; a uint32_t is written as its   *)
(* four bytes <<b3, b2, b1, b0>>, most significant first.                  *)

Zeros(n) == [i \in 1..n |-> 0]

\* IPAddress::IPAddress(uint32_t v4addr): parts[0] = v4addr, the rest zero
IPAddressV4(w) ==
    [isV6addr |-> FALSE, store |-> <<w[4], w[3], w[2], w[1]>> \o Zeros(12)]

\* IPAddress::IPAddress(const IPAddressStore& v6addr)
IPAddressV6(bytes) == [isV6addr |-> TRUE, store |-> bytes]

\* IPAddress::toV4(): parts[0]
toV4(ip) == <<ip.store[4], ip.store[3], ip.store[2], ip.store[1]>>

isV6(ip) == ip.isV6addr

PtonFail == [ok |-> FALSE]

\* inet_pton(AF_INET), which address::from_string falls back to: exactly four
\* decimal octets 0..255, no leading zero, nothing else.
RECURSIVE pton4Loop(_, _, _, _, _, _)
pton4Loop(s, i, done, cur, saw_digit, octets) ==
    IF i > Len(s)
    THEN IF octets < 4 THEN PtonFail ELSE [ok |-> TRUE, bytes |-> Append(done, cur)]
    ELSE LET ch == s[i] IN
         IF isdigit(ch)
         THEN LET new == cur * 10 + DigitVal(ch) IN
              IF saw_digit /\ cur = 0 THEN PtonFail
              ELSE IF new > 255 THEN PtonFail
              ELSE IF ~saw_digit /\ octets + 1 > 4 THEN PtonFail
              ELSE pton4Loop(s, i + 1, done, new, TRUE,
                             IF saw_digit THEN octets ELSE octets + 1)
         ELSE IF ch = "." /\ saw_digit
         THEN IF octets = 4 THEN PtonFail
              ELSE pton4Loop(s, i + 1, Append(done, cur), 0, FALSE, octets)
         ELSE PtonFail

inet_pton4(s) == pton4Loop(s, 1, <<>>, 0, FALSE, 0)

\* The end of inet_pton(AF_INET6): store the last group, expand "::".
pton6Finish(words, colonp, seen, val) ==
    IF seen > 0 /\ Len(words) >= 8 THEN PtonFail
    ELSE LET w == IF seen > 0 THEN Append(words, val) ELSE words IN
         IF colonp # -1 /\ Len(w) = 8 THEN PtonFail
         ELSE LET full == IF colonp # -1
                          THEN SubSeq(w, 1, colonp) \o Zeros(8 - Len(w))
                               \o SubSeq(w, colonp + 1, Len(w))
                          ELSE w
              IN IF Len(full) # 8 THEN PtonFail
                 ELSE [ok |-> TRUE, words |-> full]

\* The loop of inet_pton(AF_INET6) over 16-bit groups; colonp is the number
\* of groups stored before "::", or -1; curtok is where the current group starts.
RECURSIVE pton6Loop(_, _, _, _, _, _, _)
pton6Loop(s, i, words, colonp, curtok, seen, val) ==
    IF i > Len(s) THEN pton6Finish(words, colonp, seen, val)
    ELSE LET ch == s[i]
             digit == hex_digit_value(ch)
         IN IF digit >= 0
            THEN IF seen = 4 THEN PtonFail
                 ELSE pton6Loop(s, i + 1, words, colonp, curtok, seen + 1,
                                val * 16 + digit)
            ELSE IF ch = ":"
            THEN IF seen = 0
                 THEN IF colonp # -1 THEN PtonFail
                      ELSE pton6Loop(s, i + 1, words, Len(words), i + 1, 0, val)
                 ELSE IF i + 1 > Len(s) THEN PtonFail
                 ELSE IF Len(words) >= 8 THEN PtonFail
                 ELSE pton6Loop(s, i + 1, Append(words, val), colonp, i + 1, 0, 0)
            ELSE IF ch = "." /\ Len(words) <= 6
                    /\ inet_pton4(SubSeq(s, curtok, Len(s))).ok
            THEN LET b == inet_pton4(SubSeq(s, curtok, Len(s))).bytes IN
                 pton6Finish(words \o <<b[1] * 256 + b[2], b[3] * 256 + b[4]>>,
                             colonp, 0, 0)
            ELSE PtonFail

inet_pton6(s) ==
    IF Len(s) = 0 THEN PtonFail
    ELSE IF s[1] = ":"
    THEN IF Len(s) < 2 \/ s[2] # ":" THEN PtonFail
         ELSE pton6Loop(s, 2, <<>>, -1, 2, 0, 0)
    ELSE pton6Loop(s, 1, <<>>, -1, 1, 0, 0)

WordsToBytes(w) == [i \in 1..16 |-> IF i % 2 = 1 THEN w[(i + 1) \div 2] \div 256
                                    ELSE w[i \div 2] % 256]
BytesToWords(b) == [i \in 1..8 |-> b[2 * i - 1] * 256 + b[2 * i]]

\* Optional<IPAddress> IPAddress::parse(std::string str):
\* boost::asio::ip::address::from_string tries IPv6 first, then IPv4, and
\* every failure becomes the absent Optional.
IPAddress_parse(str) ==
    LET v6 == inet_pton6(str)
        v4 == inet_pton4(str)
    IN IF v6.ok THEN [present |-> TRUE, value |-> IPAddressV6(WordsToBytes(v6.words))]
       ELSE IF v4.ok THEN [present |-> TRUE, value |-> IPAddressV4(v4.bytes)]
       ELSE [present |-> FALSE]

\* inet_ntop(AF_INET6): the run of zero groups starting at i (0-based)
RECURSIVE ZeroRun(_, _)
ZeroRun(w, i) == IF i < 8 /\ w[i + 1] = 0 THEN 1 + ZeroRun(w, i + 1) ELSE 0

\* the leftmost longest run of at least two zero groups: [base, len], base -1 if none
BestRun(w) ==
    LET runs == {i \in 0..7 : ZeroRun(w, i) >= 2 /\ (i = 0 \/ w[i] # 0)}
    IN IF runs = {} THEN [base |-> -1, len |-> 0]
       ELSE LET b == CHOOSE i \in runs :
                        \A j \in runs : ZeroRun(w, j) < ZeroRun(w, i)
                                        \/ (ZeroRun(w, j) = ZeroRun(w, i) /\ i <= j)
            IN [base |-> b, len |-> ZeroRun(w, b)]

FormatDotted(b) ==
    FormatD(b[1]) \o <<".">> \o FormatD(b[2]) \o <<".">>
    \o FormatD(b[3]) \o <<".">> \o FormatD(b[4])

RECURSIVE ntop6Loop(_, _, _)
ntop6Loop(w, best, i) ==
    IF i >= 8 THEN <<>>
    ELSE IF best.base # -1 /\ i >= best.base /\ i < best.base + best.len
    THEN (IF i = best.base THEN <<":">> ELSE <<>>) \o ntop6Loop(w, best, i + 1)
    ELSE (IF i # 0 THEN <<":">> ELSE <<>>)
         \o (IF i = 6 /\ best.base = 0
                /\ (best.len = 6 \/ (best.len = 5 /\ w[6] = 65535))
             THEN FormatDotted(<<w[7] \div 256, w[7] % 256, w[8] \div 256, w[8] % 256>>)
             ELSE FormatX(w[i + 1]) \o ntop6Loop(w, best, i + 1))

inet_ntop6(w) ==
    LET best == BestRun(w) IN
    ntop6Loop(w, best, 0)
    \o (IF best.base # -1 /\ best.base + best.len = 8 THEN <<":">> ELSE <<>>)

\* A variant of IPAddress::toString that prints the IPv4 bytes in memory order.
IPAddress_toString_memoryOrder(ip) ==
    IF isV6(ip) THEN inet_ntop6(BytesToWords(ip.store))
    ELSE FormatDotted(<<ip.store[1], ip.store[2], ip.store[3], ip.store[4]>>)

\* std::string IPAddress::toString() const
IPAddress_toString(ip) ==
    IF isV6(ip) THEN inet_ntop6(BytesToWords(ip.store))
    ELSE FormatDotted(toV4(ip))

---------------------------------------------------------------------------
(* NetworkAddress: an IPAddress, a uint16_t port and a flags word.         *)

FLAG_PRIVATE == 1
FLAG_TLS == 2

\* NetworkAddress(ip, uint16_t port, bool isPublic, bool isTLS): the int
\* argument is converted to uint16_t, the flags are built from the two bools.
NetworkAddress(ip, port, isPublic, isTLS) ==
    [ip |-> ip,
     port |-> port % 65536,
     flags |-> (IF isPublic THEN 0 ELSE FLAG_PRIVATE) + (IF isTLS THEN FLAG_TLS ELSE 0)]

\* bool NetworkAddress::isTLS() const: (flags & FLAG_TLS) != 0
isTLS(a) == (a.flags \div FLAG_TLS) % 2 = 1

\* std::stoi(str): strtol in base 10, then the range of int.  Leading white
\* space and a sign are accepted, whatever follows the digits is ignored.
stoi(str) ==
    LET j == SkipSpace(str, 1)
        neg == j <= Len(str) /\ str[j] = "-"
        k == IF j <= Len(str) /\ str[j] \in {"+", "-"} THEN j + 1 ELSE j
        e == DigitsEnd(str, k)
        v == DecInt(str, k, e, neg)
    IN IF e = k THEN Threw("invalid_argument")
       ELSE IF v.ovf THEN Threw("out_of_range")
       ELSE Returned(v.val)

\* One %d of sscanf at 1-based index i: white space, a sign, digits.  A value
\* outside int is undefined behaviour: the C library of the build decides.
ScanD(s, i) ==
    LET j == SkipSpace(s, i)
        neg == j <= Len(s) /\ s[j] = "-"
        k == IF j <= Len(s) /\ s[j] \in {"+", "-"} THEN j + 1 ELSE j
        e == DigitsEnd(s, k)
        v == DecInt(s, k, e, neg)
    IN IF e = k THEN [ok |-> FALSE]
       ELSE [ok |-> TRUE, next |-> e,
             val |-> IF ~v.ovf THEN v.val
                     ELSE IF scanfOverflow = "truncate" THEN Trunc32(DecMod32(s, k, e), neg)
                     ELSE IF neg THEN INT_MIN ELSE INT_MAX]

ScanSep == <<".", ".", ".", ":">>

\* sscanf(f, "%d.%d.%d.%d:%d%n", ...): n conversions done, and count, the
\* number of characters consumed when all five were done (else still -1).
RECURSIVE scanFields(_, _, _)
scanFields(f, i, got) ==
    LET r == ScanD(f, i) IN
    IF ~r.ok THEN [n |-> Len(got), vals |-> got, count |-> -1]
    ELSE LET vals == Append(got, r.val) IN
         IF Len(vals) = 5 THEN [n |-> 5, vals |-> vals, count |-> r.next - 1]
         ELSE IF CharAt(f, r.next - 1) = ScanSep[Len(vals)]
         THEN scanFields(f, r.next + 1, vals)
         ELSE [n |-> Len(vals), vals |-> vals, count |-> -1]

sscanf(f) == scanFields(f, 1, <<>>)

\* The 32-bit pattern of an int
Word32(x) == <<(x \div 16777216) % 256, (x \div 65536) % 256, (x \div 256) % 256, x % 256>>

\* The int a 32-bit pattern stands for
ToInt(w) == (IF w[1] >= 128 THEN w[1] - 256 ELSE w[1]) * 16777216
            + w[2] * 65536 + w[3] * 256 + w[4]

\* Addition modulo 2^32
Add32(u, v) ==
    LET s4 == u[4] + v[4]
        s3 == u[3] + v[3] + (s4 \div 256)
        s2 == u[2] + v[2] + (s3 \div 256)
        s1 == u[1] + v[1] + (s2 \div 256)
    IN <<s1 % 256, s2 % 256, s3 % 256, s4 % 256>>

\* x + y leaves the range of int
AddOverflows(x, y) ==
    \/ x > 0 /\ y > INT_MAX - x
    \/ x < 0 /\ y < INT_MIN - x

\* (a << 24) + (b << 16) + (c << 8) + d on ints, converted to uint32_t.
\* ub: a shift of a negative value or out of the unsigned range, or a sum out
\* of int, is undefined; w: the result modulo 2^32.
CombineV4(a, b, c, d) ==
    LET ta == <<a % 256, 0, 0, 0>>
        tb == <<(b \div 256) % 256, b % 256, 0, 0>>
        tc == <<(c \div 65536) % 256, (c \div 256) % 256, c % 256, 0>>
        s1 == Add32(ta, tb)
        s2 == Add32(s1, tc)
        shiftUB == \/ a < 0 \/ a > 255
                   \/ b < 0 \/ b > 65535
                   \/ c < 0 \/ c > 16777215
        addUB == \/ AddOverflows(ToInt(ta), ToInt(tb))
                 \/ AddOverflows(ToInt(s1), ToInt(tc))
                 \/ AddOverflows(ToInt(s2), d)
    IN [ub |-> shiftUB \/ addUB, w |-> Add32(s2, Word32(d))]

\* NetworkAddress NetworkAddress::parse(std::string const& s)
NetworkAddress_parse(s) ==
    LET tls == Len(s) > 4 /\ substrFrom(s, Len(s) - 4) = <<":", "t", "l", "s">>
        f == IF tls THEN substr(s, 0, Len(s) - 4) ELSE s
    IN IF CharAt(f, 0) = "["
       THEN LET addrEnd == find_first_of(f, "]", 0) IN
            IF addrEnd = npos \/ CharAt(f, addrEnd + 1) # ":"
            THEN Threw("connection_string_invalid")
            ELSE LET port == stoi(substrFrom(f, addrEnd + 2))
                     addr == IPAddress_parse(substr(f, 1, addrEnd - 1))
                 IN IF port.threw # "none" THEN port
                    ELSE IF ~addr.present THEN Threw("connection_string_invalid")
                    ELSE Returned(NetworkAddress(addr.value, port.value, TRUE, tls))
       ELSE LET r == sscanf(f) IN
            IF r.n < 5 \/ r.count # Len(f)
            THEN Threw("connection_string_invalid")
            ELSE LET ip == CombineV4(r.vals[1], r.vals[2], r.vals[3], r.vals[4]) IN
                 IF ip.ub /\ signedOverflow = "trap" THEN Threw("abort")
                 ELSE Returned(NetworkAddress(IPAddressV4(ip.w), r.vals[5], TRUE, tls))

\* A variant of NetworkAddress::toString that never appends ":tls".
NetworkAddress_toString_noSuffix(a) ==
    (IF isV6(a.ip) THEN <<"[">> \o IPAddress_toString(a.ip) \o <<"]">>
     ELSE IPAddress_toString(a.ip))
    \o <<":">> \o FormatD(a.port)

\* std::string NetworkAddress::toString() const
NetworkAddress_toString(a) ==
    (IF isV6(a.ip) THEN <<"[">> \o IPAddress_toString(a.ip) \o <<"]">>
     ELSE IPAddress_toString(a.ip))
    \o <<":">> \o FormatD(a.port) \o (IF isTLS(a) THEN <<":", "t", "l", "s">> ELSE <<>>)

\* A variant of the loop of parseList that stops at p < addrs.size().
RECURSIVE parseListLoop_less(_, _, _)
parseListLoop_less(addrs, p, coord) ==
    IF ~(p < Len(addrs)) THEN Returned(coord)
    ELSE LET found == find_first_of(addrs, ",", p)
             pComma == IF found = npos THEN Len(addrs) ELSE found
             parsedAddress == NetworkAddress_parse(substr(addrs, p, pComma - p))
         IN IF parsedAddress.threw # "none" THEN parsedAddress
            ELSE parseListLoop_less(addrs, pComma + 1, Append(coord, parsedAddress.value))

\* The loop of NetworkAddress::parseList: p and pComma are 0-based indices,
\* an exception of parse leaves the loop and discards coord.
RECURSIVE parseListLoop(_, _, _)
parseListLoop(addrs, p, coord) ==
    IF ~(p <= Len(addrs)) THEN Returned(coord)
    ELSE LET found == find_first_of(addrs, ",", p)
             pComma == IF found = npos THEN Len(addrs) ELSE found
             parsedAddress == NetworkAddress_parse(substr(addrs, p, pComma - p))
         IN IF parsedAddress.threw # "none" THEN parsedAddress
            ELSE parseListLoop(addrs, pComma + 1, Append(coord, parsedAddress.value))

\* std::vector<NetworkAddress> NetworkAddress::parseList(std::string const& addrs)
parseList(addrs) == parseListLoop(addrs, 0, <<>>)

---------------------------------------------------------------------------
(* INetworkConnections::connect(host, service, useTLS).                    *)

MaxCalls == 2        \* connect calls that may be outstanding at once
MaxCandidates == 2   \* longest sequence the resolver returns
Calls == 1..MaxCalls

\* The host name call c is made with: a different one for each call.
HostOf(c) == <<"host", c>>

\* The i-th address the resolver knows; the flags differ from one to the next.
Candidate(i) ==
    [ip |-> IPAddressV4(<<10, 0, 0, i>>), port |-> 4500 + i, flags |-> i % 4]

\* What resolveTCPEndpoint(host, service) may deliver: a sequence of
\* NetworkAddress, possibly empty, or an error.
Resolutions == {[i \in 1..n |-> Candidate(i)] : n \in 0..MaxCandidates}
ResolveErrors == {"lookup_failed"}

\* What the connection opener connect(addr, host) may deliver.
ConnectOutcomes(addr) == {Returned([peer |-> addr]), Threw("connection_failed")}

\* What a read past the end of the vector may yield, if the process survives it.
OutOfBoundsReads ==
    {[ip |-> IPAddressV6(Zeros(16)), port |-> 0, flags |-> FLAG_PRIVATE + FLAG_TLS]}

\* The random source: an integer in [low, high].
randomInt(low, high) == low..high

\* addresses[r]: the element, or any stray value when r is past the end.
ReadElement(addresses, r) ==
    IF r < Len(addresses) THEN {addresses[r + 1]} ELSE OutOfBoundsReads

\* A variant of the TLS step that merges the TLS bit into the flags.
ApplyTLS_merge(addr, useTLS) ==
    IF useTLS /\ ~isTLS(addr) THEN [addr EXCEPT !.flags = @ + FLAG_TLS] ELSE addr

\* if(useTLS) addr.flags = NetworkAddress::FLAG_TLS;
ApplyTLS(addr, useTLS) ==
    IF useTLS THEN [addr EXCEPT !.flags = FLAG_TLS] ELSE addr

\* The lambda handed to map(): every endpoint it may return for a resolved
\* sequence, with the index drawn and the value read at it.
PickEndpoint(addresses, useTLS) ==
    UNION {{[index |-> r, read |-> v, addr |-> ApplyTLS(v, useTLS)] :
               v \in ReadElement(addresses, r)} :
           r \in randomInt(0, Len(addresses))}

\* The lambda may index past the end of addresses, and the read may kill the process.
MayCrash(addresses) == \E r \in randomInt(0, Len(addresses)) : r >= Len(addresses)

NoPick == [index |-> -1]

IdleCall ==
    [pc |-> "idle", host |-> <<>>, useTLS |-> FALSE, resolved |-> Unset,
     pick |-> NoPick, opened |-> <<>>, result |-> Unset]

NoCalls ==
    /\ calls = [c \in Calls |-> IdleCall]
    /\ crashed = 0

TextIdle ==
    /\ signedOverflow = "wrap"
    /\ scanfOverflow = "truncate"
    /\ text = <<>>
    /\ pc = "start"
    /\ parsed = Unset
    /\ formatted = <<>>
    /\ reparsed = Unset
    /\ tlsParsed = Unset
    /\ tlsFormatted = <<>>
    /\ listed = Unset

ConnInit == TextIdle /\ NoCalls

\* connect(host, service, useTLS) is called: resolveTCPEndpoint is outstanding.
Connect(c, useTLS) ==
    /\ crashed = 0
    /\ calls[c].pc = "idle"
    /\ IF c = 1 THEN TRUE ELSE calls[c - 1].pc # "idle"
    /\ calls' = [calls EXCEPT ![c] = [@ EXCEPT !.pc = "resolving", !.host = HostOf(c),
                                               !.useTLS = useTLS]]
    /\ UNCHANGED crashed
    /\ UNCHANGED textVars

\* The resolver fails: map() and mapAsync() pass the error on, no lambda runs.
ResolveFails(c, e) ==
    /\ crashed = 0
    /\ calls[c].pc = "resolving"
    /\ calls' = [calls EXCEPT ![c] = [@ EXCEPT !.pc = "done", !.resolved = Threw(e),
                                               !.result = Threw(e)]]
    /\ UNCHANGED crashed
    /\ UNCHANGED textVars

\* The resolver delivers addresses: the first lambda picks the endpoint.
ResolveReturns(c, addresses) ==
    /\ crashed = 0
    /\ calls[c].pc = "resolving"
    /\ \E p \in PickEndpoint(addresses, calls[c].useTLS) :
           calls' = [calls EXCEPT ![c] = [@ EXCEPT !.pc = "picked",
                                                  !.resolved = Returned(addresses),
                                                  !.pick = p]]
    /\ UNCHANGED crashed
    /\ UNCHANGED textVars

\* The resolver delivers addresses and the read past their end kills the process.
ResolveReturnsCrash(c, addresses) ==
    /\ crashed = 0
    /\ calls[c].pc = "resolving"
    /\ MayCrash(addresses)
    /\ calls' = [calls EXCEPT ![c] = [@ EXCEPT !.resolved = Returned(addresses)]]
    /\ crashed' = c
    /\ UNCHANGED textVars

\* The second lambda: connect(addr, host) is invoked with the picked endpoint.
OpenConnection(c) ==
    /\ crashed = 0
    /\ calls[c].pc = "picked"
    /\ calls' = [calls EXCEPT ![c] =
                    [@ EXCEPT !.pc = "connecting",
                              !.opened = Append(@, [addr |-> calls[c].pick.addr,
                                                    host |-> calls[c].host,
                                                    outcome |-> Unset])]]
    /\ UNCHANGED crashed
    /\ UNCHANGED textVars

\* A variant of the end of mapAsync() that goes back for another endpoint
\* when the connection failed.
Deliver_retry(call, outcome) ==
    IF outcome.threw # "none" /\ Len(call.opened) < 2
    THEN [call EXCEPT !.pc = "picked"]
    ELSE [call EXCEPT !.pc = "done", !.result = outcome]

\* The end of mapAsync(): what connect(addr, host) delivered is the result.
Deliver(call, outcome) == [call EXCEPT !.pc = "done", !.result = outcome]

\* The opener's future is set, and the call's future with it.
ConnectCompletes(c) ==
    /\ crashed = 0
    /\ calls[c].pc = "connecting"
    /\ LET n == Len(calls[c].opened) IN
       \E outcome \in ConnectOutcomes(calls[c].opened[n].addr) :
           calls' = [calls EXCEPT ![c] =
                       Deliver([calls[c] EXCEPT !.opened[n].outcome = outcome], outcome)]
    /\ UNCHANGED crashed
    /\ UNCHANGED textVars

ConnNext ==
    \E c \in Calls :
        \/ \E useTLS \in BOOLEAN : Connect(c, useTLS)
        \/ \E e \in ResolveErrors : ResolveFails(c, e)
        \/ \E addresses \in Resolutions : ResolveReturns(c, addresses)
        \/ \E addresses \in Resolutions : ResolveReturnsCrash(c, addresses)
        \/ OpenConnection(c)
        \/ ConnectCompletes(c)

ConnSpec == ConnInit /\ [][ConnNext]_vars

---------------------------------------------------------------------------
(* Inputs of the text operations.                                          *)

\* What the build may do where the code's behaviour is undefined.
SignedOverflowBuilds == {"wrap", "trap"}
ScanfOverflowBuilds == {"truncate", "clamp"}

FirstOctets == {<<"1">>, <<"2", "5", "5">>, <<"2", "5", "6">>, <<"-", "1">>, <<" ", "7">>, <<>>, <<"9", "9", "9", "9", "9", "9", "9", "9", "9", "9", "9">>}
OtherOctets == {<<".", "0", ".", "0", ".", "4", ":">>, <<".", "2", ".", "3", ".", "2", "5", "6", ":">>, <<".", "2", ".", "3", ":">>, <<".", "2", ".", "3", ".", "4", ".", "5", ":">>, <<".", "2", ".", "3", ".", "4">>}
PortTexts == {<<"8", "0">>, <<"0">>, <<"6", "5", "5", "3", "5">>, <<"6", "5", "5", "3", "6">>, <<"-", "1">>, <<>>, <<"8", "0", "x">>, <<" ", "8", "0">>,
              <<"9", "9", "9", "9", "9", "9", "9", "9", "9", "9", "9">>, <<"a", "b", "c">>}
\* What may follow the port: up to MaxTails of these, one after the other.
MaxTails == 1
TailTokens == {<<":", "t", "l", "s">>, <<":", "e", "x", "t", "r", "a">>}
RECURSIVE TailsUpTo(_)
TailsUpTo(n) ==
    IF n = 0 THEN {<<>>}
    ELSE LET shorter == TailsUpTo(n - 1) IN
         shorter \cup {t \o k : t \in shorter, k \in TailTokens}
Tails == TailsUpTo(MaxTails)
BracketAddrs == {<<":", ":", "1">>, <<":", ":">>, <<"2", "0", "0", "1", ":", "0", "d", "b", "8", ":", "8", "5", "a", "3", ":", "0", "0", "0", "0", ":", "0", "0", "0", "0", ":", "8", "a", "2", "e", ":", "0", "3", "7", "0", ":", "7", "3", "3", "4">>,
                 <<"1", ":", "0", ":", "0", ":", "2", ":", "0", ":", "0", ":", "0", ":", "3">>, <<"0", ":", "0", ":", "1", ":", "0", ":", "0", ":", "1", ":", "0", ":", "0">>, <<":", ":", "1", ":", "2">>,
                 <<":", ":", "f", "f", "f", "f", ":", "1", ".", "2", ".", "3", ".", "4">>, <<"1", ".", "2", ".", "3", ".", "4">>, <<"1", ":", ":", "2", ":", ":", "3">>, <<"g", ":", ":", "1">>,
                 <<"1", ":", "2", ":", "3", ":", "4", ":", "5", ":", "6", ":", "7">>, <<"F", "E", "8", "0", ":", ":", "A", "B", "C", "D">>, <<>>}
BracketEnds == {<<"]", ":">>, <<"]">>, <<"]", "x", ":">>}

DottedTexts == {a \o r \o p \o t : a \in FirstOctets, r \in OtherOctets,
                                   p \in PortTexts, t \in Tails}
BracketTexts == {<<"[">> \o a \o e \o p \o t : a \in BracketAddrs, e \in BracketEnds,
                                               p \in PortTexts, t \in Tails}
Texts == DottedTexts \cup BracketTexts \cup {<<>>, <<":", "t", "l", "s">>, <<"[">>}

---------------------------------------------------------------------------
(* The text pipeline: parse, parse with ":tls" appended, format, parse the *)
(* formatted text again, format the ":tls" result.                         *)

Init ==
    /\ signedOverflow \in SignedOverflowBuilds
    /\ scanfOverflow \in ScanfOverflowBuilds
    /\ text \in Texts
    /\ pc = "start"
    /\ parsed = Unset
    /\ formatted = <<>>
    /\ reparsed = Unset
    /\ tlsParsed = Unset
    /\ tlsFormatted = <<>>
    /\ listed = Unset
    /\ NoCalls

Parse ==
    /\ pc = "start"
    /\ parsed' = NetworkAddress_parse(text)
    /\ pc' = "parsed"
    /\ UNCHANGED <<signedOverflow, scanfOverflow, text, formatted, reparsed,
                   tlsParsed, tlsFormatted, listed>>
    /\ UNCHANGED connVars

ParseTls ==
    /\ pc = "parsed"
    /\ parsed.threw # "abort"
    /\ tlsParsed' = NetworkAddress_parse(text \o <<":", "t", "l", "s">>)
    /\ pc' = "tlsParsed"
    /\ UNCHANGED <<signedOverflow, scanfOverflow, text, parsed, formatted, reparsed,
                   tlsFormatted, listed>>
    /\ UNCHANGED connVars

Format ==
    /\ pc = "tlsParsed"
    /\ parsed.threw = "none"
    /\ formatted' = NetworkAddress_toString(parsed.value)
    /\ pc' = "formatted"
    /\ UNCHANGED <<signedOverflow, scanfOverflow, text, parsed, reparsed,
                   tlsParsed, tlsFormatted, listed>>
    /\ UNCHANGED connVars

Reparse ==
    /\ pc = "formatted"
    /\ reparsed' = NetworkAddress_parse(formatted)
    /\ pc' = "reparsed"
    /\ UNCHANGED <<signedOverflow, scanfOverflow, text, parsed, formatted,
                   tlsParsed, tlsFormatted, listed>>
    /\ UNCHANGED connVars

FormatTls ==
    /\ pc = "reparsed"
    /\ tlsParsed.threw = "none"
    /\ tlsFormatted' = NetworkAddress_toString(tlsParsed.value)
    /\ pc' = "done"
    /\ UNCHANGED <<signedOverflow, scanfOverflow, text, parsed, formatted, reparsed,
                   tlsParsed, listed>>
    /\ UNCHANGED connVars

Next == Parse \/ ParseTls \/ Format \/ Reparse \/ FormatTls

Spec == Init /\ [][Next]_vars

---------------------------------------------------------------------------
(* parseList on comma-joined pieces.                                       *)

MaxPieces == 3
ListPieces == {<<"1", ".", "2", ".", "3", ".", "4", ":", "8", "0">>, <<"[", ":", ":", "1", "]", ":", "4", "8", "0", "0", ":", "t", "l", "s">>, <<>>, <<"1", ".", "2", ".", "3", ":", "8", "0">>, <<"[", ":", ":", "1", "]", ":", "x">>,
               <<"2", "5", "6", ".", "1", ".", "1", ".", "1", ":", "8", "0">>}

RECURSIVE Join(_)
Join(ps) ==
    IF Len(ps) = 1 THEN ps[1] ELSE ps[1] \o <<",">> \o Join(Tail(ps))

ListTexts == {Join(ps) : ps \in UNION {[1..n -> ListPieces] : n \in 1..MaxPieces}}

ListInit ==
    /\ signedOverflow \in SignedOverflowBuilds
    /\ scanfOverflow \in ScanfOverflowBuilds
    /\ text \in ListTexts
    /\ pc = "start"
    /\ parsed = Unset
    /\ formatted = <<>>
    /\ reparsed = Unset
    /\ tlsParsed = Unset
    /\ tlsFormatted = <<>>
    /\ listed = Unset
    /\ NoCalls

ParseList ==
    /\ pc = "start"
    /\ listed' = parseList(text)
    /\ pc' = "listed"
    /\ UNCHANGED <<signedOverflow, scanfOverflow, text, parsed, formatted, reparsed,
                   tlsParsed, tlsFormatted>>
    /\ UNCHANGED connVars

ListNext == ParseList

ListSpec == ListInit /\ [][ListNext]_vars

---------------------------------------------------------------------------
(* Properties of the text operations.                                      *)

EndsWith(s, suffix) ==
    Len(s) >= Len(suffix) /\ SubSeq(s, Len(s) - Len(suffix) + 1, Len(s)) = suffix

\* C1: round trip.  Whenever parse accepted the text and its result x was
\* formatted and the formatted text parsed again, the second parse succeeds
\* and returns a value equal to x: same family, bytes, port and flags.
RoundTrip ==
    reparsed # Unset =>
        /\ reparsed.threw = "none"
        /\ reparsed.value.ip.isV6addr = parsed.value.ip.isV6addr
        /\ reparsed.value.ip.store = parsed.value.ip.store
        /\ reparsed.value.port = parsed.value.port
        /\ isTLS(reparsed.value) = isTLS(parsed.value)
        /\ reparsed.value = parsed.value

\* An IPv6 address with the TLS flag whose text was not canonical has made the round trip.
RoundTripWitness ==
    /\ pc = "reparsed"
    /\ isV6(parsed.value.ip)
    /\ isTLS(parsed.value)
    /\ formatted # text
    /\ reparsed.threw = "none"

\* The text after the last ':' of the text without its ":tls" suffix
RECURSIVE LastColon(_, _)
LastColon(s, i) == IF i = 0 \/ s[i] = ":" THEN i ELSE LastColon(s, i - 1)

WithoutTls(s) == IF Len(s) > 4 /\ EndsWith(s, <<":", "t", "l", "s">>) THEN SubSeq(s, 1, Len(s) - 4) ELSE s

WrittenPort(s) ==
    LET f == WithoutTls(s) IN SubSeq(f, LastColon(f, Len(f)) + 1, Len(f))

AllDigits(s) == Len(s) > 0 /\ \A i \in 1..Len(s) : isdigit(s[i])

\* C8: every address parse returns has the port written in the text, which
\* is a decimal number in 0..65535; no wrapped or truncated port is returned.
PortAsWritten ==
    (parsed # Unset /\ parsed.threw = "none") =>
        LET w == stoi(WrittenPort(text)) IN
        /\ w.threw = "none"
        /\ w.value \in 0..65535
        /\ parsed.value.port = w.value

\* The pieces of s between '.'
RECURSIVE SplitOn(_, _)
SplitOn(s, ch) ==
    IF ~Has(s, ch) THEN <<s>>
    ELSE LET i == CHOOSE k \in 1..Len(s) : s[k] = ch /\ \A j \in 1..(k - 1) : s[j] # ch
         IN <<SubSeq(s, 1, i - 1)>> \o SplitOn(SubSeq(s, i + 1, Len(s)), ch)

\* The grammar A.B.C.D:PORT[:tls] / [IPv6]:PORT[:tls]
DottedGrammar(f) ==
    LET parts == SplitOn(f, ":") IN
    /\ Len(parts) = 2
    /\ AllDigits(parts[2])
    /\ LET octets == SplitOn(parts[1], ".") IN
       Len(octets) = 4 /\ \A i \in 1..4 : AllDigits(octets[i])

BracketGrammar(f) ==
    \E e \in 2..Len(f) :
        /\ f[1] = "["
        /\ f[e] = "]"
        /\ \A j \in 2..(e - 1) : f[j] # "]"
        /\ e + 1 <= Len(f) /\ f[e + 1] = ":"
        /\ AllDigits(SubSeq(f, e + 2, Len(f)))
        /\ IPAddress_parse(SubSeq(f, 2, e - 1)).present

Grammar(s) == LET f == WithoutTls(s) IN DottedGrammar(f) \/ BracketGrammar(f)

\* C2: parse returns an address or raises connection_string_invalid, and it
\* raises that error for every text outside the grammar.
MalformedRejected ==
    parsed # Unset =>
        /\ parsed.threw \in {"none", "connection_string_invalid"}
        /\ parsed.threw = "none" => Grammar(text)

\* C9: TLS suffix symmetry.  For an accepted text s that does not end in
\* ":tls", parse(s + ":tls") succeeds with the TLS flag and the address and
\* port of parse(s), its toString ends with ":tls", and parse(s) has no TLS
\* flag and a toString that does not end with ":tls".
TlsSuffixSymmetry ==
    (parsed # Unset /\ parsed.threw = "none" /\ ~EndsWith(text, <<":", "t", "l", "s">>)) =>
        /\ ~isTLS(parsed.value)
        /\ tlsParsed # Unset =>
               /\ tlsParsed.threw = "none"
               /\ isTLS(tlsParsed.value)
               /\ tlsParsed.value.ip = parsed.value.ip
               /\ tlsParsed.value.port = parsed.value.port
        /\ pc \in {"formatted", "reparsed", "done"} => ~EndsWith(formatted, <<":", "t", "l", "s">>)
        /\ pc = "done" => EndsWith(tlsFormatted, <<":", "t", "l", "s">>)

\* Both parses and both formats were done for an accepted IPv6 text without the suffix.
TlsSuffixWitness ==
    /\ pc = "done"
    /\ parsed.threw = "none"
    /\ ~EndsWith(text, <<":", "t", "l", "s">>)
    /\ isV6(parsed.value.ip)
    /\ EndsWith(tlsFormatted, <<":", "t", "l", "s">>)

\* C7: parseList returns, in input order, exactly the parse of each piece
\* between commas, and fails as a whole when parse rejects any piece.
ParseListIsParseOfPieces ==
    listed # Unset =>
        LET pieces == SplitOn(text, ",")
            outs == [i \in 1..Len(pieces) |-> NetworkAddress_parse(pieces[i])]
        IN IF \A i \in 1..Len(pieces) : outs[i].threw = "none"
           THEN listed = Returned([i \in 1..Len(pieces) |-> outs[i].value])
           ELSE listed.threw # "none"

\* A list of three pieces, the first two different, was parsed.
ParseListWitness ==
    /\ pc = "listed"
    /\ listed.threw = "none"
    /\ Len(listed.value) = 3
    /\ listed.value[1] # listed.value[2]

---------------------------------------------------------------------------
(* Properties of connect.                                                  *)

Range(seq) == {seq[i] : i \in 1..Len(seq)}

Made(c) == calls[c].pc # "idle"

\* C3: when the resolver returned n >= 1 candidates, the selected index lies
\* in 0..n-1 and the endpoint picked, and handed to the opener, has the IP
\* address and port of one of those n candidates.
SelectionWithinCandidates ==
    \A c \in Calls :
        (calls[c].pick # NoPick /\ Len(calls[c].resolved.value) >= 1) =>
            LET candidates == calls[c].resolved.value
                fromCandidates(a) == \E i \in 1..Len(candidates) :
                                         /\ a.ip = candidates[i].ip
                                         /\ a.port = candidates[i].port
            IN /\ calls[c].pick.index \in 0..(Len(candidates) - 1)
               /\ fromCandidates(calls[c].pick.addr)
               /\ \A k \in 1..Len(calls[c].opened) : fromCandidates(calls[c].opened[k].addr)

\* C4: when the resolution failed or delivered no candidate, no candidate is
\* selected, the opener is never invoked for the call, and the call ends in
\* a resolution failure.
ResolutionFailurePropagates ==
    \A c \in Calls :
        (calls[c].resolved # Unset
         /\ (calls[c].resolved.threw # "none" \/ calls[c].resolved.value = <<>>)) =>
            /\ calls[c].pick = NoPick
            /\ calls[c].opened = <<>>
            /\ crashed # c
            /\ calls[c].pc = "done"
            /\ calls[c].result.threw \in ResolveErrors
            /\ calls[c].resolved.threw # "none" => calls[c].result = calls[c].resolved

\* C5: with useTLS the address handed to the opener has exactly the TLS bit
\* as its flags, whatever flags the selected candidate carried, and keeps
\* its IP address and port; without useTLS it is the selected candidate
\* unmodified, so that connect does not set the TLS bit.
TlsFlagOverwrite ==
    \A c \in Calls :
        \A k \in 1..Len(calls[c].opened) :
            LET handed == calls[c].opened[k].addr
                selected == calls[c].pick.read
            IN /\ (calls[c].pick.index < Len(calls[c].resolved.value)
                     => selected = calls[c].resolved.value[calls[c].pick.index + 1])
               /\ IF calls[c].useTLS
                  THEN /\ handed.flags = FLAG_TLS
                       /\ isTLS(handed)
                       /\ handed.ip = selected.ip
                       /\ handed.port = selected.port
                  ELSE /\ handed = selected
                       /\ isTLS(handed) = isTLS(selected)

\* A call with useTLS handed the opener a resolved candidate that carried another flag.
TlsFlagWitness ==
    \E c \in Calls :
        /\ calls[c].useTLS
        /\ Len(calls[c].opened) = 1
        /\ calls[c].pick.index < Len(calls[c].resolved.value)
        /\ calls[c].pick.read.flags = FLAG_PRIVATE
        /\ calls[c].opened[1].addr.flags = FLAG_TLS

\* C6: with several calls made, each opener invocation gets the host of its
\* own call and a candidate of its own call's resolution result, and a
\* finished call has the outcome of its own resolve and connect steps.
CallsIndependent ==
    (\E c1, c2 \in Calls : c1 # c2 /\ Made(c1) /\ Made(c2)) =>
        \A c \in Calls :
            /\ \A k \in 1..Len(calls[c].opened) :
                   /\ calls[c].opened[k].host = HostOf(c)
                   /\ calls[c].pick.read \in Range(calls[c].resolved.value)
            /\ calls[c].pc = "done" =>
                   IF calls[c].resolved.threw # "none"
                   THEN calls[c].result = calls[c].resolved
                   ELSE calls[c].result = calls[c].opened[Len(calls[c].opened)].outcome

\* C10: for a call whose resolution succeeded the opener is invoked at most
\* once, only after the resolution has completed, with the one endpoint
\* picked; a finished call has invoked it exactly once and its result is
\* what that invocation delivered.
OneOpenAfterResolve ==
    \A c \in Calls :
        /\ Len(calls[c].opened) <= 1
        /\ calls[c].pc \in {"idle", "resolving", "picked"} => calls[c].opened = <<>>
        /\ calls[c].opened # <<>> =>
               /\ calls[c].resolved # Unset
               /\ calls[c].resolved.threw = "none"
               /\ calls[c].opened[1].addr = calls[c].pick.addr
        /\ calls[c].pc = "connecting" => calls[c].opened[1].outcome = Unset
        /\ (calls[c].pc = "done" /\ calls[c].resolved.threw = "none") =>
               /\ Len(calls[c].opened) = 1
               /\ calls[c].opened[1].outcome # Unset
               /\ calls[c].result = calls[c].opened[1].outcome

\* A call ended in a connection failure after one invocation while another call was still resolving.
OneOpenWitness ==
    \E c1, c2 \in Calls :
        /\ c1 # c2
        /\ calls[c1].pc = "done"
        /\ calls[c1].result = Threw("connection_failed")
        /\ Len(calls[c1].opened) = 1
        /\ Len(calls[c1].resolved.value) = 2
        /\ calls[c2].pc = "resolving"

=============================================================================
